---- MODULE Spec2Model ----
(***************************************************************************)
(* Gmail push-notification ingestion pipeline of autofin-BE.               *)
(*                                                                         *)
(* Each webhook POST is handled by an independent asynchronous handler     *)
(* (src/src/routers/webhooks/gmail.router.ts) which calls                  *)
(* GmailService.processNotification (src/src/services/gmail.service.ts).   *)
(* Handlers share only the database (token row, categories, transactions) *)
(* and the mailbox provider; every await on one of them is one step here.  *)
(***************************************************************************)
EXTENDS Integers, Sequences, FiniteSets, TLC

\* ------------------------------------------------------------------ bounds
\* The mailbox starts at history id 1; the k-th message is added at history id
\* k+1 and carries that number as its id.
\* Messages the mailbox receives while one handler runs alone (SpecBatch).
MaxMessages == 2
\* Messages the mailbox receives while two handlers run concurrently (Spec).
RaceMessages == 1

\* Requests to the watch routes (SpecResync).
MaxWatchRequests == 3
\* OAuth callbacks that call storeTokens (SpecTokens).
MaxStoreCalls == 3

\* REST API requests served next to one webhook handler (SpecLedger).
MaxApiCalls == 2

\* Category API requests (SpecCategories).
MaxCategoryCalls == 3
\* Transaction API requests and extractor-failure notices (SpecNotify).
MaxNotifications == 2

\* Webhook handlers (one POST each).
Handlers == {1, 2}

\* ------------------------------------------------------------- data values
\* gmail_oauth_tokens.history_id is nullable; Gmail history ids are positive.
NoCursor == 0
\* transactions.category_id is nullable.
NoCategory == "null"
\* categories.user_id is null for predefined categories.
NoUser == "null"

UserId == "u1"
OtherUserId == "u2"
\* transactions.email_id is nullable (rows created through the API have none).
NoEmailId == 0
UserEmail == "u1@mail"
OtherEmail == "other@mail"

Messages == 2..(MaxMessages + 1)

\* Rows written by scripts/seed-categories.ts.
PREDEFINED_CATEGORIES ==
  { [id |-> "c-unc",  userId |-> NoUser, name |-> "Uncategorized", icon |-> "question",
     isDefault |-> TRUE,  isAiCreated |-> FALSE],
    [id |-> "c-food", userId |-> NoUser, name |-> "Food and Dining", icon |-> "plate",
     isDefault |-> TRUE,  isAiCreated |-> FALSE] }

\* String.prototype.toLowerCase on the strings that occur in the model.
toLowerCase(s) ==
  CASE s = "Uncategorized"   -> "uncategorized"
    [] s = "UNCATEGORIZED"   -> "uncategorized"
    [] s = "Food and Dining" -> "food and dining"
    [] s = "Fitness"         -> "fitness"
    [] s = "Gym"             -> "gym"
    [] OTHER                 -> s

\* String.prototype.trim on the strings that occur in the model.
trim(s) ==
  CASE s = " c-food " -> "c-food"
    [] s = "  "       -> ""
    [] OTHER          -> s

\* crypto.randomUUID(): a fresh id per (handler, message).
randomUUID(h, m) == "id-" \o ToString(h) \o "-" \o ToString(m)

\* ------------------------------------------------------- webhook envelopes
\* POST bodies: json = FALSE is a body c.req.json() cannot parse; message and
\* data say whether body.message / body.message.data are present and truthy;
\* data "garbage" is base64 of text that is not JSON, "notification" is base64
\* of JSON {emailAddress, historyId}.
Bodies ==
  { [json |-> FALSE, isNull |-> FALSE, message |-> FALSE, data |-> "absent", emailAddress |-> "", historyId |-> NoCursor],
    [json |-> TRUE,  isNull |-> TRUE,  message |-> FALSE, data |-> "absent", emailAddress |-> "", historyId |-> NoCursor],
    [json |-> TRUE,  isNull |-> FALSE, message |-> FALSE, data |-> "absent", emailAddress |-> "", historyId |-> NoCursor],
    [json |-> TRUE,  isNull |-> FALSE, message |-> TRUE,  data |-> "absent", emailAddress |-> "", historyId |-> NoCursor],
    [json |-> TRUE,  isNull |-> FALSE, message |-> TRUE,  data |-> "empty",  emailAddress |-> "", historyId |-> NoCursor],
    [json |-> TRUE,  isNull |-> FALSE, message |-> TRUE,  data |-> "garbage", emailAddress |-> "", historyId |-> NoCursor] }
  \cup
  { [json |-> TRUE, isNull |-> FALSE, message |-> TRUE, data |-> "notification", emailAddress |-> e, historyId |-> n] :
      e \in {UserEmail, OtherEmail}, n \in Messages }

\* The structure check without its second half.
LacksMessageOnly(body) == ~body.message

\* gmail.router.ts line 41: !body.message || !body.message.data
LacksMessageData(body) == ~body.message \/ body.data \in {"absent", "empty"}

\* What lines 38-53 of the router do with a body:
\*   "throw"   c.req.json(), the property access on null, or JSON.parse throws
\*   "invalid" the structure check fails
\*   "ok"      a notification was decoded
Decode(body) ==
  IF ~body.json THEN "throw"
  ELSE IF body.isNull THEN "throw"
  ELSE IF LacksMessageData(body) THEN "invalid"
  ELSE IF body.data # "notification" THEN "throw"
  ELSE "ok"

\* ------------------------------------------------------ extraction engine
NoName == "null"

\* The model's structured output before category resolution, or its failure:
\*   "error"            generateText rejects
\*   "not_transaction"  isTransaction false or transaction null
\*   "transaction"      a transaction with a category action
\* categoryId is the model's free-form reference (an id, a name, or junk; ""
\* is what the schema's transform yields when both id fields are missing).
\* Amounts are in thousandths of the currency unit, confidences in hundredths.
Amounts == {-1, 4, 5}
Confidences == {-1, 0, 100, 101}
CategoryRefs == {"", "c-food", " c-food ", "UNCATEGORIZED", "Fitness", "zzz"}
NewCategoryNames == {"Fitness"}
NewCategoryIcon == "muscle"

ModelOutputs ==
  { [kind |-> "error", amount |-> 0, confidence |-> 0, action |-> "none", categoryId |-> "",
     newCategoryName |-> NoName],
    [kind |-> "not_transaction", amount |-> 0, confidence |-> 0, action |-> "none",
     categoryId |-> "", newCategoryName |-> NoName] }
  \cup
  { [kind |-> "transaction", amount |-> a, confidence |-> c, action |-> act, categoryId |-> r,
     newCategoryName |-> NoName] :
      a \in Amounts, c \in Confidences, act \in {"select_existing", "uncategorized"},
      r \in CategoryRefs }
  \cup
  { [kind |-> "transaction", amount |-> a, confidence |-> c, action |-> "create_new",
     categoryId |-> "", newCategoryName |-> n] :
      a \in Amounts, c \in Confidences, n \in NewCategoryNames }

NotATransaction ==
  [isTransaction |-> FALSE, amount |-> 0, confidence |-> 0, categoryId |-> NoCategory,
   newCategory |-> NoName]

\* availableCategories.find(c => c.name.toLowerCase() === 'uncategorized')?.id ?? null.
\* find() returns the first match of an array whose order among equal names is
\* not fixed, so every match is a possible result.
UncategorizedIds(availableCategories) ==
  LET m == {c \in availableCategories : toLowerCase(c.name) = "uncategorized"}
  IN IF m = {} THEN {NoCategory} ELSE {c.id : c \in m}

\* A resolution with no lookup of the reference among the ids.
resolveByNameOnly(value, availableCategories, uncategorized) ==
  IF value = "" THEN {uncategorized}
  ELSE LET trimmed == trim(value)
           byName == {c \in availableCategories : toLowerCase(c.name) = toLowerCase(trimmed)}
       IN IF byName # {} THEN {c.id : c \in byName} ELSE {uncategorized}

\* resolveCategoryId(value, categoryMap, uncategorized): the ids it can return.
resolveCategoryId(value, availableCategories, uncategorized) ==
  IF value = "" THEN {uncategorized}
  ELSE LET trimmed == trim(value)
           byName == {c \in availableCategories : toLowerCase(c.name) = toLowerCase(trimmed)}
       IN IF trimmed \in {c.id : c \in availableCategories} THEN {trimmed}
          ELSE IF byName # {} THEN {c.id : c \in byName}
          ELSE {uncategorized}

\* selectedCategory?.id || uncategorized?.id || null
selectedCategoryId(resolvedId, availableCategories, uncategorized) ==
  IF resolvedId # NoCategory /\ resolvedId \in {c.id : c \in availableCategories}
  THEN resolvedId ELSE uncategorized

\* The confidence field declared as a plain z.number().
anyConfidence(confidence) == TRUE

\* createExtractionSchema line 128: confidence is z.number().min(0).max(1).
confidenceInRange(confidence) == confidence >= 0 /\ confidence <= 100

\* Output.object({schema}): result.output throws when the model's object does
\* not pass the schema.
schemaAccepts(out) == out.kind = "transaction" => confidenceInRange(out.confidence)

\* An extractor that always asks the model.
neverShortCircuit(availableCategories) == FALSE

\* Lines 279-289: categoryIds.length === 0 returns before generateText.
noCategoriesAvailable(availableCategories) == availableCategories = {}

\* extractFromEmail(email, availableCategories): the results it can return when
\* the model answers `out`. A rejected generateText and a schema failure are
\* caught at lines 365-373.
extractFromEmail(out, availableCategories) ==
  IF noCategoriesAvailable(availableCategories) THEN {NotATransaction}
  ELSE IF out.kind = "error" \/ ~schemaAccepts(out) THEN {NotATransaction}
  ELSE IF out.kind # "transaction" THEN {NotATransaction}
  ELSE IF out.action = "create_new"
       THEN {[isTransaction |-> TRUE, amount |-> out.amount, confidence |-> out.confidence,
              categoryId |-> NoCategory, newCategory |-> out.newCategoryName]}
  ELSE {[isTransaction |-> TRUE, amount |-> out.amount, confidence |-> out.confidence,
         categoryId |-> selectedCategoryId(r, availableCategories, u), newCategory |-> NoName] :
           <<u, r>> \in {<<u2, r2>> \in (UncategorizedIds(availableCategories) \X
                                         ({NoCategory} \cup {c.id : c \in availableCategories})) :
                          r2 \in resolveCategoryId(out.categoryId, availableCategories, u2)}}

\* extractFromSms(sms, availableCategories), lines 383-476: the same steps on
\* the SMS text.
extractFromSms(out, availableCategories) ==
  IF noCategoriesAvailable(availableCategories) THEN {NotATransaction}
  ELSE IF out.kind = "error" \/ ~schemaAccepts(out) THEN {NotATransaction}
  ELSE IF out.kind # "transaction" THEN {NotATransaction}
  ELSE IF out.action = "create_new"
       THEN {[isTransaction |-> TRUE, amount |-> out.amount, confidence |-> out.confidence,
              categoryId |-> NoCategory, newCategory |-> out.newCategoryName]}
  ELSE {[isTransaction |-> TRUE, amount |-> out.amount, confidence |-> out.confidence,
         categoryId |-> selectedCategoryId(r, availableCategories, u), newCategory |-> NoName] :
           <<u, r>> \in {<<u2, r2>> \in (UncategorizedIds(availableCategories) \X
                                         ({NoCategory} \cup {c.id : c \in availableCategories})) :
                          r2 \in resolveCategoryId(out.categoryId, availableCategories, u2)}}

\* The numeric(12,2) column: the database rounds the written amount to two
\* decimals (half away from zero); amounts here are in thousandths.
numeric_12_2(amount) ==
  IF amount >= 0 THEN ((amount + 5) \div 10) * 10 ELSE 0 - (((0 - amount) + 5) \div 10) * 10

\* isValidTransaction(result); type is 'debit' | 'credit' by the output schema.
isValidTransaction(result) == result.isTransaction /\ result.amount > 0

\* ------------------------------------------------------------------ state
VARIABLES
  provHid,       \* the mailbox's current history id at the provider
  historyId,     \* gmail_oauth_tokens.history_id of the user's row (stored cursor)
  categories,    \* rows of the categories table
  transactions,  \* rows of the transactions table
  hs,            \* per webhook handler: its position and local variables
  inserts,       \* per message id: how many transaction rows were ever inserted for it
  api,           \* the REST API: number of requests served and the last one's outcome
  discord,       \* DiscordServiceImpl: its webhook URL and its requests
  resync,        \* the gmail-watch-resync function: events received and its runs
  tokens         \* gmail_oauth_tokens rows and the storeTokens calls in progress

vars == <<provHid, historyId, categories, transactions, hs, inserts, api, discord, resync,
          tokens>>

NoBody == [json |-> FALSE, isNull |-> FALSE, message |-> FALSE, data |-> "none",
           emailAddress |-> "", historyId |-> NoCursor]

\* No error was caught around getHistory.
NoError == [status |-> 0, message |-> <<>>]

NoResult == [success |-> TRUE, historyId |-> NoCursor, processedCount |-> 0,
             failedCount |-> 0, errors |-> <<>>]

IdleHandler ==
  [pc |-> "idle", body |-> NoBody, storedHistoryId |-> NoCursor, result |-> NoResult,
   delta |-> <<>>, idx |-> 0, processedMessageIds |-> {}, availableCategories |-> {},
   extractionResult |-> NotATransaction, unread |-> FALSE, categoryId |-> NoCategory,
   \* the category reference of the model output behind extractionResult
   categoryRef |-> "",
   status |-> 0, response |-> "none", historyError |-> NoError,
   \* bookkeeping of what the pass did, per message id
   outcome |-> {}, extractCalls |-> {}, dupHits |-> {}, modelCalls |-> {},
   \* per message id: how many times the loop body was entered for it
   visits |-> [m \in Messages |-> 0]]

\* What an API response keeps of an extraction result.
Extracted(r) == [isTransaction |-> r.isTransaction, confidence |-> r.confidence]

NoExtraction == Extracted(NotATransaction)

\* No API request was served yet.
NoApi == [calls |-> 0, op |-> "none", userId |-> NoUser, id |-> "", status |-> 0,
          modelCalls |-> 0, extracted |-> NoExtraction, fields |-> {}]

\* new DiscordServiceImpl() with DISCORD_WEBHOOK_URL unset: getWebhookUrl gives ''.
NoDiscord == [webhookUrl |-> "", sent |-> 0, inflight |-> 0, logged |-> 0, rejected |-> FALSE]

\* The resync function has received no event and has no run.
NoResync ==
  [requests |-> 0, received |-> 0, last |-> [name |-> "none", userId |-> NoUser],
   pending |-> [u \in {UserId, OtherUserId} |-> 0], runs |-> {}]

StoreCalls == 1..MaxStoreCalls

NoTokenId == "null"

\* A storeTokens call that has not started.
IdleStore == [pc |-> "idle", userId |-> NoUser, existing |-> NoTokenId]

\* The gmail_oauth_tokens table after the user's authorization: one row.
StoredTokens ==
  [rows |-> {[id |-> "t-0", userId |-> UserId, accessToken |-> "token-0"]},
   calls |-> [k \in StoreCalls |-> IdleStore],
   lastWrite |-> [u \in {UserId, OtherUserId} |-> IF u = UserId THEN "token-0" ELSE ""]]

Init ==
  /\ resync = NoResync
  /\ tokens = StoredTokens
  /\ provHid = 1
  /\ historyId = NoCursor
  /\ categories = PREDEFINED_CATEGORIES
  /\ transactions = {}
  /\ hs = [h \in Handlers |-> IdleHandler]
  /\ inserts = [m \in Messages |-> 0]
  /\ api = NoApi
  /\ discord = NoDiscord

\* --------------------------------------------------- processNotification
\* A pass marked failed as soon as one message failed.
AnyFailure(processedCount, failedCount) == failedCount > 0

\* Lines 553-556: the pass is marked failed when every message failed.
IsTotalFailure(processedCount, failedCount) == processedCount = 0 /\ failedCount > 0

\* c.json(body, status): the handler is over.
Respond(s, status, response) == [s EXCEPT !.pc = "done", !.status = status, !.response = response]

\* A catch that reports the failure to the push provider.
CatchAllServerError(s) == Respond(s, 500, "Failed to process webhook")

\* Router lines 124-136: the catch around the whole handler answers 200.
CatchAll(s) == Respond(s, 200, "Failed to process webhook")

\* The messagesAdded entries the provider returns for startHistoryId: the
\* messages added after it, in order; the same message may be listed again by a
\* later history record of the same delta.
RECURSIVE Range(_, _)
Range(a, b) == IF a > b THEN <<>> ELSE <<a>> \o Range(a + 1, b)

HistoryDeltas(startHistoryId, current) ==
  LET base == Range(startHistoryId + 1, current)
  IN IF base = <<>> THEN {base} ELSE {base, Append(base, base[1])}

\* A loop with no processedMessageIds check: the next entry, whatever its id.
NextIndexNoSkip(delta, processedMessageIds, i) == i

\* Lines 355-365: the index of the next messagesAdded entry whose id is not in
\* processedMessageIds.
RECURSIVE NextIndex(_, _, _)
NextIndex(delta, processedMessageIds, i) ==
  IF i > Len(delta) THEN i
  ELSE IF delta[i] \in processedMessageIds THEN NextIndex(delta, processedMessageIds, i + 1)
  ELSE i

\* Lines 551-558: after the loop, success is cleared on total failure and the
\* result is returned to the router.
Finish(s) ==
  [s EXCEPT !.pc = "cursor",
            !.result.success = ~IsTotalFailure(s.result.processedCount, s.result.failedCount)]

\* A loop that is left after its first iteration.
LeaveAfterFirst(s) ==
  IF s.idx = 0 /\ Len(s.delta) > 0
  THEN [s EXCEPT !.idx = 1, !.pc = "dedup", !.processedMessageIds = {s.delta[1]},
                 !.visits[s.delta[1]] = @ + 1]
  ELSE Finish([s EXCEPT !.idx = Len(s.delta) + 1, !.extractionResult = NotATransaction,
                        !.unread = FALSE, !.categoryId = NoCategory, !.categoryRef = ""])

\* `continue` / end of one loop iteration: go on with the next unseen message,
\* or leave the loop.
Advance(s) ==
  LET j == NextIndex(s.delta, s.processedMessageIds, s.idx + 1)
      c == [s EXCEPT !.idx = j, !.extractionResult = NotATransaction, !.unread = FALSE,
                     !.categoryId = NoCategory, !.categoryRef = ""]
  IN IF j > Len(s.delta) THEN Finish(c)
     ELSE [c EXCEPT !.pc = "dedup", !.processedMessageIds = @ \cup {s.delta[j]},
                    !.visits[s.delta[j]] = @ + 1]

Current(s) == s.delta[s.idx]

Note(s, label) == [s EXCEPT !.outcome = @ \cup {<<Current(s), label>>}]

\* Line 372 / 511: result.processedCount++
Processed(s) == Advance([s EXCEPT !.result.processedCount = @ + 1])

\* A catch that counts the failure and records no error entry.
FailedNoEntry(s) == Advance([Note(s, "failed") EXCEPT !.result.failedCount = @ + 1])

\* Lines 512-524: the per-message catch for an error that is not a 404.
Failed(s) ==
  Advance([Note(s, "failed") EXCEPT !.result.failedCount = @ + 1,
                   !.result.errors = Append(@, ToString(Current(s)))])

\* The count placed inside the UNREAD branch.
AfterSaveUncounted(s) ==
  IF s.unread THEN [s EXCEPT !.pc = "mark", !.categoryRef = ""] ELSE Advance(s)

\* Lines 500-511: remove UNREAD if the message has it, then count the message.
AfterSave(s) ==
  IF s.unread THEN [s EXCEPT !.pc = "mark", !.categoryRef = ""] ELSE Processed(s)

\* ---------------------------------------------------------------- actions
Set(h, s) == hs' = [hs EXCEPT ![h] = s]

\* A mail arrives: the mailbox's history id grows and the provider publishes a
\* notification carrying it (delivered at least once, in any order).
MailArrives(limit) ==
  /\ provHid < limit + 1
  /\ provHid' = provHid + 1
  /\ UNCHANGED <<historyId, categories, transactions, hs, inserts, api, discord, resync, tokens>>

\* gmailWatchResync step 'renew-watch' (and the watch routes): watch() reports
\* the mailbox's current history id, which is stored as the cursor.
RenewWatch ==
  /\ historyId' = provHid
  /\ historyId' # historyId
  /\ UNCHANGED <<provHid, categories, transactions, hs, inserts, api, discord, resync, tokens>>

\* POST /webhooks/gmail, lines 36-67: parse the body, check its structure,
\* decode the notification.
ReceiveWebhook(h) ==
  /\ hs[h].pc = "idle"
  /\ \E body \in Bodies :
       /\ body.data = "notification" => body.historyId <= provHid
       /\ LET s == [hs[h] EXCEPT !.body = body]
              d == Decode(body)
          IN Set(h, IF d = "invalid" THEN Respond(s, 400, "Invalid message format")
                    ELSE IF d = "throw" THEN CatchAll(s)
                    ELSE [s EXCEPT !.pc = "lookup"])
  /\ UNCHANGED <<provHid, historyId, categories, transactions, inserts, api, discord, resync, tokens>>

\* A lookup that ignores the address and returns the only token row.
findAnyToken(emailAddress) == {[userId |-> UserId, historyId |-> historyId]}

\* GmailOAuthRepository.findByEmailAddress: the gmail_oauth_tokens rows whose
\* email_address equals the argument (the table holds the row of UserEmail).
findByEmailAddress(emailAddress) ==
  IF emailAddress = UserEmail THEN {[userId |-> UserId, historyId |-> historyId]} ELSE {}

\* Lines 72-96: gmailOAuthRepo.findByEmailAddress.
FindByEmailAddress(h) ==
  LET s == hs[h]
      found == findByEmailAddress(s.body.emailAddress)
  IN
  /\ s.pc = "lookup"
  /\ \/ \* the query fails or loses the race against the 10 s timeout
        Set(h, Respond(s, 200, "Database error"))
     \/ /\ found = {}
        /\ Set(h, Respond(s, 200, "No OAuth token found for this email address"))
     \/ \E token \in found :
          Set(h, [s EXCEPT !.pc = "history", !.storedHistoryId = token.historyId,
                           !.result = [NoResult EXCEPT !.historyId = s.body.historyId]])
  /\ UNCHANGED <<provHid, historyId, categories, transactions, inserts, api, discord, resync, tokens>>

\* Line 289: storedHistoryId || notification.historyId
historyIdToUse(s) ==
  IF s.storedHistoryId # NoCursor THEN s.storedHistoryId ELSE s.body.historyId

\* gmailRequest lines 256-261: the Error thrown for a response that is not ok,
\* `Gmail API error: ${status} ${statusText} - ${JSON.stringify(error)}`, as
\* the parts of its text; reason is what the provider's body says.
GmailApiError(status, statusText, reason) ==
  [status |-> status, message |-> <<"Gmail API error:", ToString(status), statusText, reason>>]

\* refreshAccessToken lines 176-181: `Failed to refresh token: ${status} ...`.
RefreshError(status, statusText, reason) ==
  [status |-> status,
   message |-> <<"Failed to refresh token:", ToString(status), statusText, reason>>]

\* What getHistory can throw: the provider's 404 for an expired start id, its
\* 401 for a rejected access token, the token endpoint's invalid_grant for a
\* revoked refresh token, a server error, and getAccessToken finding no row.
HistoryErrors ==
  { GmailApiError(404, "Not Found", "notFound"),
    GmailApiError(401, "Unauthorized", "authError"),
    RefreshError(400, "Bad Request", "invalid_grant"),
    GmailApiError(500, "Internal Server Error", "backendError"),
    [status |-> 0, message |-> <<"No Gmail OAuth token found for user", UserId>>] }

\* errorMessage.includes(part), on the parts of the text.
includes(errorMessage, part) == \E i \in 1..Len(errorMessage) : errorMessage[i] = part

\* The catch with no branch for an expired start id.
expiredIsFailure(result, errorMessage) ==
  IF includes(errorMessage, "401") \/ includes(errorMessage, "invalid_grant")
  THEN [result EXCEPT !.success = FALSE, !.errors = <<"auth">>]
  ELSE [result EXCEPT !.success = FALSE, !.errors = <<"history">>]

\* The catch with no branch for a rejected credential.
untaggedAuth(result, errorMessage) ==
  IF includes(errorMessage, "404") \/ includes(errorMessage, "notFound")
  THEN [result EXCEPT !.success = TRUE, !.errors = <<"history">>]
  ELSE [result EXCEPT !.success = FALSE, !.errors = <<"history">>]

\* Lines 307-341: the result returned from the catch around getHistory; the
\* errors entry is written as its messageId.
historyErrorResult(result, errorMessage) ==
  IF includes(errorMessage, "404") \/ includes(errorMessage, "notFound")
  THEN [result EXCEPT !.success = TRUE, !.errors = <<"history">>]
  ELSE IF includes(errorMessage, "401") \/ includes(errorMessage, "invalid_grant")
  THEN [result EXCEPT !.success = FALSE, !.errors = <<"auth">>]
  ELSE [result EXCEPT !.success = FALSE, !.errors = <<"history">>]

\* Lines 305-341: getHistory and its error handling.
GetHistory(h) ==
  LET s == hs[h] IN
  /\ s.pc = "history"
  /\ \/ \E delta \in HistoryDeltas(historyIdToUse(s), provHid) :
          Set(h, [s EXCEPT !.pc = "categories", !.delta = delta])
     \/ \E error \in HistoryErrors :
          Set(h, [s EXCEPT !.pc = "cursor", !.historyError = error,
                           !.result = historyErrorResult(s.result, error.message)])
  /\ UNCHANGED <<provHid, historyId, categories, transactions, inserts, api, discord, resync, tokens>>

\* CategoryRepository.findAllForUser
findAllForUser(userId) == {c \in categories : c.userId = NoUser \/ c.userId = userId}

\* Lines 343-353: load the categories once, outside any try; then enter the loop.
FindAllForUser(h) ==
  LET s == hs[h] IN
  /\ s.pc = "categories"
  /\ \/ Set(h, Advance([s EXCEPT !.availableCategories = findAllForUser(UserId)]))
     \/ \* the query throws: processNotification throws, the router's catch answers
        Set(h, CatchAll(s))
  /\ UNCHANGED <<provHid, historyId, categories, transactions, inserts, api, discord, resync, tokens>>

\* TransactionRepository.findByEmailId
findByEmailId(emailId) == {t \in transactions : t.emailId = emailId}

\* The duplicate check without its `continue`.
ExtractDespiteDuplicate(s) ==
  [Note(s, "duplicate") EXCEPT !.dupHits = @ \cup {Current(s)}, !.pc = "fetch"]

\* Lines 370-374: a row exists, so the message is counted and the loop continues.
SkipDuplicate(s) == Processed([Note(s, "duplicate") EXCEPT !.dupHits = @ \cup {Current(s)}])

\* Lines 367-374: the duplicate check before the extraction.
FindByEmailId(h) ==
  LET s == hs[h] IN
  /\ s.pc = "dedup"
  /\ \/ /\ findByEmailId(Current(s)) # {}
        /\ Set(h, SkipDuplicate(s))
     \/ /\ findByEmailId(Current(s)) = {}
        /\ Set(h, [s EXCEPT !.pc = "fetch"])
     \/ Set(h, Failed(s))
  /\ UNCHANGED <<provHid, historyId, categories, transactions, inserts, api, discord, resync, tokens>>

\* What getMessage can throw: the provider's 404 for a deleted message, its
\* 401, a server error, a refused refresh token.
MessageErrors ==
  { GmailApiError(404, "Not Found", "notFound"),
    GmailApiError(401, "Unauthorized", "authError"),
    GmailApiError(500, "Internal Server Error", "backendError"),
    RefreshError(400, "Bad Request", "invalid_grant") }

\* Lines 515-519: the per-message catch skips an error whose text has '404' or
\* 'notFound' without counting the message.
messageNotFound(errorMessage) ==
  includes(errorMessage, "404") \/ includes(errorMessage, "notFound")

\* Lines 376-379: getMessage(userId, messageId, 'full'), and the per-message
\* catch for what it throws.
GetMessage(h) ==
  LET s == hs[h] IN
  /\ s.pc = "fetch"
  /\ \/ \E unread \in BOOLEAN : Set(h, [s EXCEPT !.pc = "extract", !.unread = unread])
     \/ \E error \in MessageErrors :
          Set(h, IF messageNotFound(error.message) THEN Advance(Note(s, "not_found"))
                 ELSE Failed(s))
  /\ UNCHANGED <<provHid, historyId, categories, transactions, inserts, api, discord, resync, tokens>>

\* getAIModel(): provider(modelId) of the configured SDK returns the model or
\* throws; extractFromEmail line 269 calls it before its try block.
GetAIModelOutcomes == {"model", "throw"}

\* Lines 394-411 and 496-498: extractFromEmail, then isValidTransaction. An
\* exception out of extractFromEmail lands in the per-message catch.
ExtractFromEmail(h) ==
  LET s == hs[h]
      c == [s EXCEPT !.extractCalls = @ \cup {Current(s)},
                     !.modelCalls = IF noCategoriesAvailable(s.availableCategories) THEN @
                                    ELSE @ \cup {Current(s)}]
  IN
  /\ s.pc = "extract"
  /\ \E model \in GetAIModelOutcomes :
       IF model = "throw" THEN Set(h, Failed(Note(c, "extractor_threw")))
       ELSE
         \E out \in ModelOutputs :
           \E r \in extractFromEmail(out, s.availableCategories) :
             LET e == [c EXCEPT !.extractionResult = r,
                                !.categoryRef = IF r.isTransaction THEN out.categoryId ELSE ""]
             IN Set(h, IF isValidTransaction(r)
                       THEN [e EXCEPT !.categoryId = r.categoryId,
                                      !.pc = IF r.newCategory # NoName THEN "create_category"
                                             ELSE "insert"]
                       ELSE AfterSave(Note(e, IF out.kind = "error" THEN "extraction_failed"
                                              ELSE "not_saved")))
  /\ UNCHANGED <<provHid, historyId, categories, transactions, inserts, api, discord, resync, tokens>>

\* Lines 415-429: categoryRepo.create for a create_new decision.
CreateCategory(h) ==
  LET s == hs[h]
      newCategory == [id |-> randomUUID(h, Current(s)), userId |-> UserId,
                      name |-> s.extractionResult.newCategory, icon |-> NewCategoryIcon,
                      isDefault |-> FALSE, isAiCreated |-> TRUE]
  IN
  /\ s.pc = "create_category"
  /\ \/ /\ categories' = categories \cup {newCategory}
        /\ Set(h, [s EXCEPT !.pc = "insert", !.categoryId = newCategory.id])
     \/ \* the insert throws
        /\ Set(h, [s EXCEPT !.pc = "find_category"])
        /\ UNCHANGED categories
  /\ UNCHANGED <<provHid, historyId, transactions, inserts, api, discord, resync, tokens>>

\* CategoryRepository.findByNameForUser: the rows limit(1) may return.
findByNameForUser(name, userId) ==
  {c \in categories : c.name = name /\ (c.userId = NoUser \/ c.userId = userId)}

\* Lines 430-444: after a failed create, look the category up by name.
FindByNameForUser(h) ==
  LET s == hs[h]
      found == findByNameForUser(s.extractionResult.newCategory, UserId)
  IN
  /\ s.pc = "find_category"
  /\ \/ \E existingCategory \in found :
          Set(h, [s EXCEPT !.pc = "insert", !.categoryId = existingCategory.id])
     \/ /\ found = {}
        /\ Set(h, [s EXCEPT !.pc = "insert"])
     \/ Set(h, Failed(s))
  /\ UNCHANGED <<provHid, historyId, categories, transactions, inserts, api, discord, resync, tokens>>

\* The transactions table without the unique constraint.
NoUniqueConstraint(emailId) == FALSE

\* transactions.email_id is UNIQUE: the insert is rejected when a row has it.
UniqueViolation(emailId) == \E t \in transactions : t.emailId = emailId

\* Lines 462-495: transactionRepo.create and the unique-violation `continue`.
CreateTransaction(h) ==
  LET s == hs[h]
      row == [id |-> randomUUID(h, Current(s)), userId |-> UserId,
              categoryId |-> s.categoryId,
              amount |-> numeric_12_2(s.extractionResult.amount),
              emailId |-> Current(s), isAiCreated |-> TRUE]
  IN
  /\ s.pc = "insert"
  /\ \/ /\ ~UniqueViolation(row.emailId)
        /\ transactions' = transactions \cup {row}
        /\ inserts' = [inserts EXCEPT ![row.emailId] = @ + 1]
        /\ Set(h, AfterSave(Note(s, "saved")))
     \/ /\ UniqueViolation(row.emailId)
        /\ Set(h, Advance(Note(s, "race_duplicate")))
        /\ UNCHANGED <<transactions, inserts>>
     \/ \* any other database error is rethrown to the per-message catch
        /\ Set(h, Failed(s))
        /\ UNCHANGED <<transactions, inserts>>
  /\ UNCHANGED <<provHid, historyId, categories, api, discord, resync, tokens>>

\* A markAsRead failure that reaches the per-message catch.
markFailureUncaught(s) == Failed(s)

\* Lines 503-509: the try around markAsRead; a failure is caught by its own
\* catch, inside the per-message try.
markAsReadFailed(s) == [s EXCEPT !.pc = "mark_caught"]

\* Lines 500-511: markAsRead succeeds and line 511 counts the message, or it
\* fails and the handler is in the catch of lines 506-509.
MarkAsRead(h) ==
  LET s == hs[h] IN
  /\ s.pc = "mark"
  /\ \/ Set(h, Processed(s))
     \/ Set(h, markAsReadFailed(s))
  /\ UNCHANGED <<provHid, historyId, categories, transactions, inserts, api, discord, resync, tokens>>

\* Lines 506-511: the catch only logs the failure; line 511 counts the message.
MarkAsReadCatch(h) ==
  LET s == hs[h] IN
  /\ s.pc = "mark_caught"
  /\ Set(h, Processed(s))
  /\ UNCHANGED <<provHid, historyId, categories, transactions, inserts, api, discord, resync, tokens>>

\* Router line 106: the cursor is written when the result says success.
ShouldUpdateHistoryId(result) == result.success

\* Router lines 105-123 and the catch at 124-136.
UpdateHistoryIdByEmail(h) ==
  LET s == hs[h] IN
  /\ s.pc = "cursor"
  /\ \/ /\ ShouldUpdateHistoryId(s.result)
        /\ historyId' = s.result.historyId
        /\ Set(h, Respond(s, 200, "Gmail notification received and processed"))
     \/ \* the update throws
        /\ ShouldUpdateHistoryId(s.result)
        /\ UNCHANGED historyId
        /\ Set(h, CatchAll(s))
     \/ /\ ~ShouldUpdateHistoryId(s.result)
        /\ UNCHANGED historyId
        /\ Set(h, Respond(s, 200, "Gmail notification received and processed"))
  /\ UNCHANGED <<provHid, categories, transactions, inserts, api, discord, resync, tokens>>

HandlerStep(h) ==
  \/ ReceiveWebhook(h)
  \/ FindByEmailAddress(h)
  \/ GetHistory(h)
  \/ FindAllForUser(h)
  \/ FindByEmailId(h)
  \/ GetMessage(h)
  \/ ExtractFromEmail(h)
  \/ CreateCategory(h)
  \/ FindByNameForUser(h)
  \/ CreateTransaction(h)
  \/ MarkAsRead(h)
  \/ MarkAsReadCatch(h)
  \/ UpdateHistoryIdByEmail(h)

\* Two webhook handlers running concurrently on a mailbox of RaceMessages
\* messages, with watch renewals in between.
Next ==
  \/ MailArrives(RaceMessages)
  \/ RenewWatch
  \/ \E h \in Handlers : HandlerStep(h)

Spec == Init /\ [][Next]_vars

\* One webhook handler working through deltas of up to MaxMessages messages.
\* It starts either on the fresh system or after a watch registration at history
\* id 1 and an earlier pass (handler 2 of Spec) that saved message 2 and whose
\* cursor update failed.
EarlierRow ==
  [id |-> randomUUID(2, 2), userId |-> UserId, categoryId |-> "c-unc", amount |-> 10,
   emailId |-> 2, isAiCreated |-> TRUE]

BatchInit ==
  /\ resync = NoResync
  /\ tokens = StoredTokens
  /\ categories = PREDEFINED_CATEGORIES
  /\ hs = [h \in Handlers |-> IdleHandler]
  /\ api = NoApi
  /\ discord = NoDiscord
  /\ \/ /\ provHid = 1 /\ historyId = NoCursor /\ transactions = {}
        /\ inserts = [m \in Messages |-> 0]
     \/ /\ provHid = 2 /\ historyId = 1 /\ transactions = {EarlierRow}
        /\ inserts = [m \in Messages |-> IF m = EarlierRow.emailId THEN 1 ELSE 0]

BatchNext ==
  \/ MailArrives(MaxMessages)
  \/ RenewWatch
  \/ HandlerStep(1)

SpecBatch == BatchInit /\ [][BatchNext]_vars

\* The steps of a handler whose awaited call is certain to return: the token
\* lookup races a 10 s timer (findByEmailAddress), the others are queries on
\* the application's own database. The mailbox calls (gmailRequest's fetch:
\* getHistory, getMessage, markAsRead) and the model call (generateText) are
\* awaited with no timer and no abort signal.
ReturningStep(h) ==
  \/ FindByEmailAddress(h)
  \/ FindAllForUser(h)
  \/ FindByEmailId(h)
  \/ CreateCategory(h)
  \/ FindByNameForUser(h)
  \/ CreateTransaction(h)
  \/ MarkAsReadCatch(h)
  \/ UpdateHistoryIdByEmail(h)

\* SpecBatch with the progress the code guarantees: a step whose call returns
\* is eventually taken; a mailbox call or a model call may stall forever.
SpecStall == BatchInit /\ [][BatchNext]_vars /\ WF_vars(ReturningStep(1))

\* -------------------------------------------------------------- REST API
\* The request counter and the last response.
Served(op, userId, id, status, modelCalls) ==
  [calls |-> api.calls + 1, op |-> op, userId |-> userId, id |-> id, status |-> status,
   modelCalls |-> modelCalls, extracted |-> NoExtraction, fields |-> {}]

\* An unset environment variable or an omitted constructor argument.
Unset == "undefined"
WebhookUrl == "https://discord.test/hook"

\* getWebhookUrl(override): (override ?? process.env.DISCORD_WEBHOOK_URL ?? '').trim()
getWebhookUrl(override, env) ==
  trim(IF override # Unset THEN override ELSE IF env # Unset THEN env ELSE "")

\* What fetch(this.webhookUrl, ...) can do: answer 2xx, answer another status,
\* or reject (network failure, invalid URL).
FetchResults == {"ok", "not_ok", "reject"}

\* post() without its try/catch.
postUncaught(fetchResult) == IF fetchResult = "reject" THEN "rejected" ELSE "resolved"

\* DiscordServiceImpl.post, lines 144-158: fetch's rejection and a response
\* that is not ok are logged; the promise resolves either way.
post(fetchResult) == "resolved"

\* notifyExtractorFailed up to its first await: nothing is sent when the stored
\* webhook URL is empty, otherwise the text is built from the error and post()
\* issues the request.
notifyExtractorFailed(d) ==
  IF d.webhookUrl = "" THEN d ELSE [d EXCEPT !.sent = @ + 1, !.inflight = @ + 1]

\* notifyNewTransaction up to its first await: nothing is sent when the stored
\* webhook URL is empty, otherwise post() issues the request.
notifyNewTransaction(d) ==
  IF d.webhookUrl = "" THEN d ELSE [d EXCEPT !.sent = @ + 1, !.inflight = @ + 1]

\* CreateTransactionSchema: amount is z.coerce.number().positive().
positive(amount) == amount > 0

\* POST /transactions, lines 76-130: validate the body, insert the row, read it
\* back, start the notification without awaiting it, answer 201.
CreateTransactionApi(limit) ==
  /\ api.calls < limit
  /\ \E amount \in {0} \cup Amounts, categoryId \in {NoCategory, "c-food", "zzz"} :
       LET id == randomUUID(0, api.calls + 1)
           row == [id |-> id, userId |-> UserId, categoryId |-> categoryId,
                   amount |-> numeric_12_2(amount), emailId |-> NoEmailId,
                   isAiCreated |-> FALSE]
       IN
       \/ /\ ~positive(amount)
          /\ api' = Served("create", UserId, "", 400, 0)
          /\ UNCHANGED <<transactions, discord>>
       \/ \* the insert throws (always for a categoryId that references no row)
          /\ positive(amount)
          /\ api' = Served("create", UserId, "", 500, 0)
          /\ UNCHANGED <<transactions, discord>>
       \/ /\ positive(amount)
          /\ categoryId \in {NoCategory} \cup {c.id : c \in categories}
          /\ transactions' = transactions \cup {row}
          /\ \/ /\ api' = Served("create", UserId, id, 201, 0)
                /\ discord' = notifyNewTransaction(discord)
             \/ \* the row cannot be read back
                /\ api' = Served("create", UserId, id, 500, 0)
                /\ UNCHANGED discord
  /\ UNCHANGED <<provHid, historyId, categories, hs, inserts, resync, tokens>>

\* POST /transactions/sms, lines 185-300: load the categories, extract, create
\* the suggested category (or look it up after a failed create), insert the
\* row, read it back, start the notification, answer 201.
CreateTransactionFromSms(limit) ==
  /\ api.calls < limit
  /\ LET availableCategories == findAllForUser(UserId)
         called == IF noCategoriesAvailable(availableCategories) THEN 0 ELSE 1
         id == randomUUID(0, api.calls + 1)
     IN
     \E model \in GetAIModelOutcomes :
       IF model = "throw"
       THEN /\ api' = Served("sms", UserId, "", 500, 0)
            /\ UNCHANGED <<categories, transactions, discord>>
       ELSE
         \E out \in ModelOutputs : \E r \in extractFromSms(out, availableCategories) :
           IF ~isValidTransaction(r)
           THEN /\ api' = [Served("sms", UserId, "", 400, called) EXCEPT !.extracted = Extracted(r)]
                /\ UNCHANGED <<categories, transactions, discord>>
           ELSE
             LET newCat == [id |-> randomUUID(0, 0 - (api.calls + 1)), userId |-> UserId,
                            name |-> r.newCategory, icon |-> NewCategoryIcon,
                            isDefault |-> FALSE, isAiCreated |-> TRUE]
                 found == findByNameForUser(r.newCategory, UserId)
             IN
             \E categoryId \in
                  (IF r.newCategory = NoName THEN {r.categoryId}
                   ELSE {newCat.id} \cup {c.id : c \in found}
                        \cup (IF found = {} THEN {NoCategory} ELSE {})) :
               LET row == [id |-> id, userId |-> UserId, categoryId |-> categoryId,
                           amount |-> numeric_12_2(r.amount), emailId |-> NoEmailId,
                           isAiCreated |-> TRUE]
               IN
               /\ categories' = IF categoryId = newCat.id THEN categories \cup {newCat}
                                ELSE categories
               /\ \/ /\ transactions' = transactions \cup {row}
                     /\ api' = [Served("sms", UserId, id, 201, called)
                               EXCEPT !.extracted = Extracted(r)]
                     /\ discord' = notifyNewTransaction(discord)
                  \/ \* the insert throws
                     /\ api' = [Served("sms", UserId, "", 500, called)
                               EXCEPT !.extracted = Extracted(r)]
                     /\ UNCHANGED <<transactions, discord>>
  /\ UNCHANGED <<provHid, historyId, hs, inserts, resync, tokens>>

\* DELETE /transactions/{id}, lines 633-645, with TransactionRepository.delete:
\* the row with this id is removed when it belongs to the caller.
DeleteTransactionApi(limit) ==
  /\ api.calls < limit
  /\ \E userId \in {UserId, OtherUserId}, id \in {t.id : t \in transactions} \cup {"zzz"} :
       LET deleted == {t \in transactions : t.id = id /\ t.userId = userId}
       IN /\ transactions' = transactions \ deleted
          /\ api' = Served("delete", userId, id, IF deleted = {} THEN 404 ELSE 200, 0)
  /\ UNCHANGED <<provHid, historyId, categories, hs, inserts, discord, resync, tokens>>

\* One webhook handler on a mailbox of RaceMessages messages next to the
\* transaction API of the same user. The watch was registered at history id 1;
\* the categories table is seeded or not; in the second case an earlier pass
\* has saved message 2 and its cursor update failed.
LedgerInit ==
  /\ resync = NoResync
  /\ tokens = StoredTokens
  /\ hs = [h \in Handlers |-> IdleHandler]
  /\ api = NoApi
  /\ discord = NoDiscord
  /\ \/ /\ provHid = 1 /\ historyId = 1 /\ transactions = {}
        /\ categories \in {PREDEFINED_CATEGORIES, {}}
        /\ inserts = [m \in Messages |-> 0]
     \/ /\ provHid = 2 /\ historyId = 1 /\ transactions = {EarlierRow}
        /\ categories = PREDEFINED_CATEGORIES
        /\ inserts = [m \in Messages |-> IF m = EarlierRow.emailId THEN 1 ELSE 0]

LedgerNext ==
  \/ MailArrives(RaceMessages)
  \/ HandlerStep(1)
  \/ CreateTransactionApi(MaxApiCalls)
  \/ CreateTransactionFromSms(MaxApiCalls)
  \/ DeleteTransactionApi(MaxApiCalls)

SpecLedger == LedgerInit /\ [][LedgerNext]_vars

\* notifyExtractorFailed(context, error) called by a component that caught an
\* extractor failure.
NotifyExtractorFailed ==
  /\ discord.sent < MaxNotifications
  /\ discord' = notifyExtractorFailed(discord)
  /\ discord' # discord
  /\ UNCHANGED <<provHid, historyId, categories, transactions, hs, inserts, api, resync, tokens>>

\* The Discord webhook answers a pending POST, or the request fails; post()
\* logs what is not ok and the notification's promise settles.
DiscordResponds ==
  /\ discord.inflight > 0
  /\ \E fetchResult \in FetchResults :
       discord' = [discord EXCEPT !.inflight = @ - 1,
                                  !.logged = IF fetchResult = "ok" THEN @ ELSE @ + 1,
                                  !.rejected = @ \/ post(fetchResult) = "rejected"]
  /\ UNCHANGED <<provHid, historyId, categories, transactions, hs, inserts, api, resync, tokens>>

\* The transaction API with a Discord service built from any combination of
\* constructor argument and environment variable.
NotifyInit ==
  /\ resync = NoResync
  /\ tokens = StoredTokens
  /\ provHid = 1
  /\ historyId = NoCursor
  /\ categories = PREDEFINED_CATEGORIES
  /\ transactions = {}
  /\ hs = [h \in Handlers |-> IdleHandler]
  /\ inserts = [m \in Messages |-> 0]
  /\ api = NoApi
  /\ \E override \in {Unset, "", WebhookUrl}, env \in {Unset, "  ", WebhookUrl} :
       discord = [NoDiscord EXCEPT !.webhookUrl = getWebhookUrl(override, env)]

NotifyNext ==
  \/ CreateTransactionApi(MaxNotifications)
  \/ CreateTransactionFromSms(MaxNotifications)
  \/ NotifyExtractorFailed
  \/ DiscordResponds

SpecNotify == NotifyInit /\ [][NotifyNext]_vars

\* ---------------------------------------------------------- category API
NoIcon == "null"
Absent == "undefined"

\* UpdateCategorySchema: name and icon are both optional.
UpdateBodies == [name : {Absent, "Gym"}, icon : {Absent, "star"}]

\* A where clause that selects by id alone.
anyCategoryWithId(c, id, userId) == c.id = id

\* CategoryRepository.update / delete, the where clause: the row with this id,
\* owned by the caller, not a default.
ownCustomCategory(c, id, userId) == c.id = id /\ c.userId = userId /\ ~c.isDefault

\* POST /categories, lines 173-197.
CreateCategoryApi ==
  /\ api.calls < MaxCategoryCalls
  /\ \E userId \in {UserId, OtherUserId}, name \in {"Gym", "Food and Dining"},
        icon \in {"", "star"} :
       LET id == randomUUID(0, api.calls + 1)
           row == [id |-> id, userId |-> userId, name |-> name,
                   icon |-> IF icon = "" THEN NoIcon ELSE icon,
                   isDefault |-> FALSE, isAiCreated |-> FALSE]
       IN \/ /\ categories' = categories \cup {row}
             /\ api' = Served("create_category", userId, id, 201, 0)
          \/ \* the insert throws
             /\ api' = Served("create_category", userId, "", 400, 0)
             /\ UNCHANGED categories
  /\ UNCHANGED <<provHid, historyId, transactions, hs, inserts, discord, resync, tokens>>

\* PATCH /categories/{id}, lines 247-268, with CategoryRepository.update. A
\* body that sets no column makes the update statement fail ("No values to
\* set"); the handler has no catch, so the request ends in a 500.
UpdateCategoryApi ==
  /\ api.calls < MaxCategoryCalls
  /\ \E userId \in {UserId, OtherUserId}, id \in {c.id : c \in categories} \cup {"zzz"},
        body \in UpdateBodies :
       LET fields == {f \in {"name", "icon"} :
                       (IF f = "name" THEN body.name ELSE body.icon) # Absent}
           hit == {c \in categories : ownCustomCategory(c, id, userId)}
           set(c) == [c EXCEPT !.name = IF body.name = Absent THEN @ ELSE body.name,
                               !.icon = IF body.icon = Absent THEN @ ELSE body.icon]
       IN IF fields = {}
          THEN /\ api' = [Served("update_category", userId, id, 500, 0) EXCEPT !.fields = fields]
               /\ UNCHANGED categories
          ELSE /\ categories' = (categories \ hit) \cup {set(c) : c \in hit}
               /\ api' = [Served("update_category", userId, id,
                                 IF hit = {} THEN 404 ELSE 200, 0) EXCEPT !.fields = fields]
  /\ UNCHANGED <<provHid, historyId, transactions, hs, inserts, discord, resync, tokens>>

\* DELETE /categories/{id}, lines 313-328, with CategoryRepository.delete;
\* transactions.category_id is set to null by the foreign key.
DeleteCategoryApi ==
  /\ api.calls < MaxCategoryCalls
  /\ \E userId \in {UserId, OtherUserId}, id \in {c.id : c \in categories} \cup {"zzz"} :
       LET hit == {c \in categories : ownCustomCategory(c, id, userId)}
       IN /\ categories' = categories \ hit
          /\ transactions' = {IF t.categoryId \in {c.id : c \in hit}
                               THEN [t EXCEPT !.categoryId = NoCategory] ELSE t :
                                 t \in transactions}
          /\ api' = Served("delete_category", userId, id, IF hit = {} THEN 404 ELSE 200, 0)
  /\ UNCHANGED <<provHid, historyId, hs, inserts, discord, resync, tokens>>

\* Two users calling the category API on the seeded table.
CategoriesNext ==
  \/ CreateCategoryApi
  \/ UpdateCategoryApi
  \/ DeleteCategoryApi

SpecCategories == Init /\ [][CategoriesNext]_vars

\* ---------------------------------------------------------- watch resync
Users == {UserId, OtherUserId}

\* A function whose newer trigger does not cancel the run in progress.
cancelOnStoppedOnly(run, event) ==
  event.name = "gmail/watch.stopped" /\ run.userId = event.userId

\* gmailWatchResync cancelOn, lines 29-38: a run is cancelled by a
\* gmail/watch.stopped or gmail/watch.started event received while it runs,
\* if async.data.userId == event.data.userId.
cancelOn(run, event) ==
  /\ event.name \in {"gmail/watch.stopped", "gmail/watch.started"}
  /\ run.userId = event.userId

\* The function receives an event: the runs it cancels are cancelled, and a
\* gmail/watch.started event (the trigger, line 40) starts a run, which begins
\* with its 'renew-watch' step.
Receive(r, event) ==
  LET kept == {IF run.status = "running" /\ cancelOn(run, event)
               THEN [run EXCEPT !.status = "cancelled"] ELSE run : run \in r.runs}
      started == IF event.name = "gmail/watch.started"
                 THEN {[id |-> r.received + 1, userId |-> event.userId, status |-> "running",
                        at |-> "renew-watch"]}
                 ELSE {}
  IN [r EXCEPT !.received = @ + 1, !.last = event, !.runs = kept \cup started]

\* POST /gmail/watch, part_008 lines 996-1024, up to its first inngest.send:
\* watch(), the cursor write, and the gmail/watch.stopped event. A send that
\* throws ends the try block, so no gmail/watch.started follows.
StartWatchRoute ==
  /\ resync.requests < MaxWatchRequests
  /\ \E u \in Users :
       /\ historyId' = IF u = UserId THEN provHid ELSE historyId
       /\ \/ resync' = [Receive(resync, [name |-> "gmail/watch.stopped", userId |-> u])
                         EXCEPT !.requests = @ + 1, !.pending[u] = @ + 1]
          \/ resync' = [resync EXCEPT !.requests = @ + 1]
  /\ UNCHANGED <<provHid, categories, transactions, hs, inserts, api, discord, tokens>>

\* POST /gmail/watch, lines 1017-1024: the gmail/watch.started event, or the
\* send throws and the failure is only logged.
SendWatchStarted ==
  /\ \E u \in Users :
       /\ resync.pending[u] > 0
       /\ \/ resync' = [Receive(resync, [name |-> "gmail/watch.started", userId |-> u])
                         EXCEPT !.pending[u] = @ - 1]
          \/ resync' = [resync EXCEPT !.pending[u] = @ - 1]
  /\ UNCHANGED <<provHid, historyId, categories, transactions, hs, inserts, api, discord, tokens>>

\* POST /gmail/watch/stop, lines 1207-1229: stopWatch and the
\* gmail/watch.stopped event (best-effort).
StopWatchRoute ==
  /\ resync.requests < MaxWatchRequests
  /\ \E u \in Users :
       \/ resync' = [Receive(resync, [name |-> "gmail/watch.stopped", userId |-> u])
                      EXCEPT !.requests = @ + 1]
       \/ resync' = [resync EXCEPT !.requests = @ + 1]
  /\ UNCHANGED <<provHid, historyId, categories, transactions, hs, inserts, api, discord, tokens>>

\* gmailWatchResync lines 53-61: one turn of the loop of a run that is not
\* cancelled: step 'renew-watch' stores the history id watch() reports, then
\* the run sleeps; the sleep ends and the run is at 'renew-watch' again.
ResyncStep ==
  /\ \E run \in resync.runs :
       /\ run.status = "running"
       /\ IF run.at = "renew-watch"
          THEN /\ historyId' = IF run.userId = UserId THEN provHid ELSE historyId
               /\ resync' = [resync EXCEPT !.runs = (@ \ {run}) \cup
                                                    {[run EXCEPT !.at = "wait-before-renew"]}]
          ELSE /\ UNCHANGED historyId
               /\ resync' = [resync EXCEPT !.runs = (@ \ {run}) \cup
                                                    {[run EXCEPT !.at = "renew-watch"]}]
  /\ UNCHANGED <<provHid, categories, transactions, hs, inserts, api, discord, tokens>>

\* Two users calling the watch routes while mail arrives and the runs of the
\* resync function renew the watch.
ResyncNext ==
  \/ MailArrives(RaceMessages)
  \/ StartWatchRoute
  \/ SendWatchStarted
  \/ StopWatchRoute
  \/ ResyncStep

SpecResync == Init /\ [][ResyncNext]_vars

\* ------------------------------------------------------------ storeTokens
\* GmailOAuthRepository.findByUserId: what limit(1) may return, as row ids.
findByUserId(userId) ==
  LET found == {t \in tokens.rows : t.userId = userId}
  IN IF found = {} THEN {NoTokenId} ELSE {t.id : t \in found}

\* storeTokens lines 208-209: an OAuth callback of some user starts the call
\* and reads the user's existing token row.
FindByUserId(k) ==
  /\ tokens.calls[k].pc = "idle"
  /\ \E userId \in Users : \E existing \in findByUserId(userId) :
       tokens' = [tokens EXCEPT !.calls[k] = [pc |-> "write", userId |-> userId,
                                              existing |-> existing]]
  /\ UNCHANGED <<provHid, historyId, categories, transactions, hs, inserts, api, discord, resync>>

\* storeTokens lines 211-234: update the row that was read (by its id), or
\* create a row with a fresh id; the table has no unique rule on user_id.
WriteToken(k) ==
  LET call == tokens.calls[k]
      accessToken == "token-" \o ToString(k)
      row == [id |-> "t-" \o ToString(k), userId |-> call.userId, accessToken |-> accessToken]
  IN
  /\ call.pc = "write"
  /\ \/ tokens' = [tokens EXCEPT
                      !.calls[k].pc = "done",
                      !.lastWrite[call.userId] = accessToken,
                      !.rows = IF call.existing = NoTokenId THEN @ \cup {row}
                               ELSE {IF t.id = call.existing
                                     THEN [t EXCEPT !.accessToken = accessToken] ELSE t : t \in @}]
     \/ \* the statement fails and storeTokens throws
        tokens' = [tokens EXCEPT !.calls[k].pc = "done"]
  /\ UNCHANGED <<provHid, historyId, categories, transactions, hs, inserts, api, discord, resync>>

\* OAuth callbacks of two users, the first user authorized before or not.
TokensInit ==
  /\ provHid = 1
  /\ historyId = NoCursor
  /\ categories = PREDEFINED_CATEGORIES
  /\ transactions = {}
  /\ hs = [h \in Handlers |-> IdleHandler]
  /\ inserts = [m \in Messages |-> 0]
  /\ api = NoApi
  /\ discord = NoDiscord
  /\ resync = NoResync
  /\ tokens \in {StoredTokens,
                 [StoredTokens EXCEPT !.rows = {}, !.lastWrite = [u \in Users |-> ""]]}

TokensNext == \E k \in StoreCalls : FindByUserId(k) \/ WriteToken(k)

SpecTokens == TokensInit /\ [][TokensNext]_vars

\* ------------------------------------------------------------- properties
RowsFor(m) == {t \in transactions : t.emailId = m}

\* The pass of handler h carried message m up to the insert with a valid
\* extraction: it saved the row, or its insert hit the unique constraint.
HandledValid(h, m) ==
  <<m, "saved">> \in hs[h].outcome \/ <<m, "race_duplicate">> \in hs[h].outcome

\* C1: no message id ever has two transaction rows, and once a pass has carried
\* a message with a valid extraction through its insert (alone, after another
\* pass, or racing another pass past the duplicate check), exactly one row has
\* that emailId.
Idempotency ==
  \A m \in Messages :
    /\ Cardinality(RowsFor(m)) <= 1
    /\ (\E h \in Handlers : HandledValid(h, m)) => Cardinality(RowsFor(m)) = 1

\* Both handlers passed the duplicate check for the same message before either
\* inserted: one saved it, the other hit the constraint.
IdempotencyWitness ==
  \E m \in Messages :
    <<m, "saved">> \in hs[1].outcome /\ <<m, "race_duplicate">> \in hs[2].outcome

\* C2: in one pass, a message whose duplicate check found a row is never given
\* to extractFromEmail.
CostSkip == \A h \in Handlers : hs[h].dupHits \cap hs[h].extractCalls = {}

\* A pass met an already stored message and has finished.
CostSkipWitness == \E h \in Handlers : hs[h].dupHits # {} /\ hs[h].pc = "done"

\* C3: every change of the stored cursor sets it to a history id the provider
\* has reported, and never to one lower than the cursor stored before.
CursorMonotone ==
  [][historyId' # historyId => (historyId' \in 1..provHid /\ historyId' > historyId)]_vars

\* The router has the result of a pass that fetched its delta and ran the loop.
LoopReturned(s) == s.pc = "cursor" /\ s.idx > 0

\* C4: when the handler, holding the result of a fetched delta, completes its
\* last step normally, the stored cursor becomes the notification's historyId
\* unless processedCount = 0 and failedCount > 0, in which case it is left alone;
\* so it is written for an empty delta and when a message succeeded.
CursorWriteRule ==
  [][\A h \in Handlers :
       (LoopReturned(hs[h]) /\ hs'[h].pc = "done"
          /\ hs'[h].response = "Gmail notification received and processed")
       => /\ (hs[h].result.processedCount = 0 /\ hs[h].result.failedCount > 0)
               => historyId' = historyId
          /\ ~(hs[h].result.processedCount = 0 /\ hs[h].result.failedCount > 0)
               => historyId' = hs[h].body.historyId
          /\ (hs[h].delta = <<>> \/ hs[h].result.processedCount > 0)
               => historyId' = hs[h].body.historyId]_vars

\* A pass in which every message failed has ended and the cursor was withheld.
CursorWriteRuleWitness ==
  \E h \in Handlers :
    /\ hs[h].pc = "done" /\ hs[h].idx > 0 /\ hs[h].status = 200
    /\ hs[h].result.processedCount = 0 /\ hs[h].result.failedCount > 0
    /\ historyId # hs[h].body.historyId

\* processNotification has returned from the loop over a delta of distinct new
\* messages of which exactly one had its extraction fail (the model call or the
\* schema validation) while every other one was extracted as a valid
\* transaction and saved.
OneExtractionFailed(s, bad) ==
  /\ s.pc \in {"cursor", "done"} /\ s.idx > 0
  /\ bad \in s.processedMessageIds
  /\ \A m \in s.processedMessageIds :
       \A label \in {"saved", "race_duplicate", "duplicate", "not_saved", "not_found",
                     "failed", "extraction_failed"} :
         <<m, label>> \in s.outcome <=>
           label = (IF m = bad THEN "extraction_failed" ELSE "saved")

CategoryClosure ==
  \A t \in transactions :
    t.categoryId # NoCategory /\ t.categoryId \in {c.id : c \in categories}

\* C7: when both handlers have passed the category step of a create_new
\* decision for the same name, the user has exactly one category of that name.
CreateNewRace ==
  \A n \in NewCategoryNames :
    (\A h \in Handlers : hs[h].pc = "insert" /\ hs[h].extractionResult.newCategory = n)
    => Cardinality({c \in categories : c.name = n /\ c.userId = UserId}) = 1

\* The body is JSON with no message, or a message with no data.
MissingMessageOrData(body) ==
  body.json /\ ~body.isNull /\ (~body.message \/ body.data = "absent")

\* C8: the only step of a handler whose body lacks message or message.data is
\* the one that answers 400; it reads no token, fetches nothing, extracts
\* nothing and leaves cursor, categories and transactions as they were.
MalformedEnvelope ==
  [][\A h \in Handlers :
       (MissingMessageOrData(hs'[h].body) /\ hs'[h] # hs[h])
       => /\ hs[h].pc = "idle" /\ hs'[h].pc = "done"
          /\ hs'[h].status = 400
          /\ hs'[h] = [IdleHandler EXCEPT !.pc = "done", !.body = hs'[h].body,
                                          !.status = 400,
                                          !.response = "Invalid message format"]
          /\ UNCHANGED <<historyId, categories, transactions>>]_vars

\* A body with a message but no data was answered.
MalformedEnvelopeWitness ==
  \E h \in Handlers :
    hs[h].pc = "done" /\ hs[h].body.message /\ hs[h].body.data = "absent"
      /\ hs[h].status = 400

\* The body is not JSON, or its data is present but is not a JSON notification.
Undecodable(body) ==
  body.data # "none" /\ (~body.json \/ body.isNull \/ body.data = "garbage")

\* C9: every POST that fails to decode is answered with a 4xx status.
DecodeFailureRejected ==
  \A h \in Handlers :
    (hs[h].pc = "done" /\ (Undecodable(hs[h].body) \/ MissingMessageOrData(hs[h].body)))
    => hs[h].status \in 400..499

\* C10: every POST whose notification decoded is answered with a 2xx status,
\* whatever happened after the decoding.
AlwaysAcknowledged ==
  \A h \in Handlers :
    (hs[h].pc = "done" /\ hs[h].body.data = "notification") => hs[h].status \in 200..299

\* A decoded notification whose handling ended in the router's catch.
AlwaysAcknowledgedWitness ==
  \E h \in Handlers :
    /\ hs[h].pc = "done" /\ hs[h].body.data = "notification"
    /\ hs[h].response = "Failed to process webhook"
    /\ hs[h].result.processedCount > 0

\* C11: a handler whose notification names an address with no token row takes
\* exactly one more step, the 200 answer; it fetches no history, extracts
\* nothing, and leaves the cursor, the categories and the transactions alone.
NoTokenNoEffect ==
  [][\A h \in Handlers :
       (hs[h].body.data = "notification" /\ hs[h].body.emailAddress = OtherEmail
          /\ hs'[h] # hs[h])
       => /\ hs[h].pc = "lookup" /\ hs'[h].pc = "done"
          /\ hs'[h].status \in 200..299
          /\ hs'[h] = [IdleHandler EXCEPT !.pc = "done", !.body = hs[h].body,
                                          !.status = hs'[h].status,
                                          !.response = hs'[h].response]
          /\ UNCHANGED <<historyId, categories, transactions>>]_vars

\* A notification for an unknown address was answered after the lookup found
\* no row.
NoTokenNoEffectWitness ==
  \E h \in Handlers :
    /\ hs[h].pc = "done" /\ hs[h].body.emailAddress = OtherEmail
    /\ hs[h].response = "No OAuth token found for this email address"
    /\ hs[h].status = 200

\* C12: when getHistory fails with the provider's 404 for the start id, the
\* result given to the router has success = TRUE, processedCount = 0 and
\* failedCount = 0, no message was handled, and the router's step that
\* completes normally stores the notification's historyId as the cursor.
ExpiredCursorAdvances ==
  [][\A h \in Handlers :
       (hs[h].pc = "cursor" /\ hs[h].historyError.status = 404)
       => /\ hs[h].result.success
          /\ hs[h].result.processedCount = 0 /\ hs[h].result.failedCount = 0
          /\ hs[h].result.historyId = hs[h].body.historyId
          /\ hs[h].processedMessageIds = {} /\ hs[h].outcome = {}
          /\ hs[h].extractCalls = {}
          /\ (hs'[h] # hs[h] /\ hs'[h].response = "Gmail notification received and processed")
               => historyId' = hs[h].body.historyId]_vars

\* A notification older than the stored cursor met an expired start id, and
\* the handler has stored the notification's historyId.
ExpiredCursorWitness ==
  \E h \in Handlers :
    /\ hs[h].pc = "done" /\ hs[h].historyError.status = 404
    /\ hs[h].response = "Gmail notification received and processed"
    /\ hs[h].storedHistoryId # NoCursor /\ hs[h].storedHistoryId # hs[h].body.historyId
    /\ historyId = hs[h].body.historyId

\* getHistory failed on the credential: the provider answered 401, or the
\* token endpoint refused the refresh token with invalid_grant.
CredentialRejected(error) ==
  error.status = 401 \/ (error.message # <<>> /\ error.message[Len(error.message)] = "invalid_grant")

\* C13: when getHistory fails on the credential, the result given to the
\* router has success = FALSE and the single error 'auth', no message was
\* handled, and no step of the handler changes the stored cursor; every other
\* failure of getHistory is tagged 'history'.
AuthFailureDistinct ==
  [][\A h \in Handlers :
       (hs[h].pc = "cursor" /\ hs[h].historyError # NoError)
       => /\ (hs[h].result.errors = <<"auth">>) <=> CredentialRejected(hs[h].historyError)
          /\ ~CredentialRejected(hs[h].historyError) => hs[h].result.errors = <<"history">>
          /\ CredentialRejected(hs[h].historyError)
               => /\ ~hs[h].result.success
                  /\ hs[h].result.processedCount = 0 /\ hs[h].result.failedCount = 0
                  /\ hs[h].processedMessageIds = {} /\ hs[h].outcome = {}
                  /\ hs[h].extractCalls = {}
                  /\ (hs'[h] # hs[h] => historyId' = historyId)]_vars

\* A refused refresh token ended a handler while the stored cursor is behind
\* the notification.
AuthFailureWitness ==
  \E h \in Handlers :
    /\ hs[h].pc = "done" /\ hs[h].historyError.status = 400
    /\ hs[h].result.errors = <<"auth">>
    /\ historyId # hs[h].body.historyId

\* C14: extractFromEmail never propagates an exception to its caller: no
\* message of any pass ends in the caller's catch because the extractor threw.
ExtractionNeverThrows ==
  \A h \in Handlers : \A m \in Messages : <<m, "extractor_threw">> \notin hs[h].outcome

\* C15: an extractor call made with no available category returns
\* isTransaction = FALSE without a generateText call, in the mail pass and in
\* the SMS request alike, and while the user sees no category no transaction
\* row has been created from a message.
EmptyCategoriesShortCircuit ==
  /\ \A h \in Handlers :
       (hs[h].extractCalls # {} /\ hs[h].availableCategories = {})
       => /\ hs[h].modelCalls = {}
          /\ ~hs[h].extractionResult.isTransaction
          /\ \A m \in Messages : <<m, "saved">> \notin hs[h].outcome
  /\ (findAllForUser(UserId) = {} /\ api.op = "sms")
       => (api.modelCalls = 0 /\ ~api.extracted.isTransaction /\ api.status # 201)
  /\ findAllForUser(UserId) = {} => {t \in transactions : t.isAiCreated} = {}

\* With an unseeded categories table, a mail pass handed a message to the
\* extractor and the SMS request was answered.
EmptyCategoriesWitness ==
  /\ categories = {}
  /\ api.op = "sms" /\ api.status = 400
  /\ \E h \in Handlers : hs[h].pc = "done" /\ hs[h].extractCalls # {}

\* C16: every extraction result with isTransaction = TRUE, from a mail or from
\* an SMS, has a confidence between 0 and 1 (0 and 100 hundredths).
ConfidenceBound ==
  /\ \A h \in Handlers :
       hs[h].extractionResult.isTransaction => hs[h].extractionResult.confidence \in 0..100
  /\ api.extracted.isTransaction => api.extracted.confidence \in 0..100

\* Results at both ends of the range: a mail extracted with confidence 0 and an
\* SMS extracted with confidence 1.
ConfidenceBoundWitness ==
  /\ \E h \in Handlers :
       hs[h].extractionResult.isTransaction /\ hs[h].extractionResult.confidence = 0
  /\ api.extracted.isTransaction /\ api.extracted.confidence = 100

\* C17: every stored transaction row has an amount greater than zero.
AmountSign == \A t \in transactions : t.amount > 0

\* C18: for every message id, at most one transaction row was ever inserted.
InsertedAtMostOnce == \A m \in Messages : inserts[m] <= 1

\* The request's target is a default category or a category of another user.
Protected(id, userId) ==
  \E c \in categories : c.id = id /\ (c.isDefault \/ c.userId # userId)

\* A category API request was served in this step.
CategoryRequest(op) == api' # api /\ api'.op = op

NotifyFireAndForget ==
  [][/\ ~discord'.rejected
     /\ discord'.webhookUrl = "" => discord'.sent = 0
     /\ discord'.inflight < discord.inflight => UNCHANGED <<transactions, categories, api>>
     /\ (api' # api /\ api'.op \in {"create", "sms"} /\ api'.status = 201)
        => \E t \in transactions' : t.id = api'.id]_vars

\* A transaction was created with 201 and the webhook POST it started has
\* failed and been logged.
NotifyWitness ==
  /\ api.op = "create" /\ api.status = 201
  /\ \E t \in transactions : t.id = api.id
  /\ discord.sent > 0 /\ discord.inflight = 0 /\ discord.logged > 0

\* The positions of a pass inside the loop body of one message.
InLoopBody(s) ==
  s.pc \in {"dedup", "fetch", "extract", "create_category", "find_category", "insert", "mark",
           "mark_caught"}

\* C21: within one pass the loop body is entered at most once per message id,
\* also when the delta lists the id again: the message is dedup-checked (and so
\* fetched and extracted) at most once, and a pass inside the loop body is at a
\* message it entered exactly once.
OncePerPass ==
  \A h \in Handlers :
    /\ \A m \in Messages : hs[h].visits[m] <= 1
    /\ InLoopBody(hs[h]) => hs[h].visits[Current(hs[h])] = 1

\* A pass over a delta that lists its first message a second time has ended,
\* and that message was given to the extractor.
OncePerPassWitness ==
  \E h \in Handlers :
    /\ hs[h].pc = "done" /\ Len(hs[h].delta) > Cardinality(hs[h].processedMessageIds)
    /\ hs[h].delta[Len(hs[h].delta)] \in hs[h].extractCalls

\* The ids of a category set, and those of its categories named Uncategorized
\* (null when there is none).
Ids(cats) == {c.id : c \in cats}

FallbackIds(cats) ==
  LET u == {c \in cats : toLowerCase(c.name) = "uncategorized"}
  IN IF u = {} THEN {NoCategory} ELSE Ids(u)

\* The order of resolution for a reference: the reference if it is an id, else
\* the id of a category whose name equals it case-insensitively, else the
\* fallback.
InOrder(ref, cats) ==
  IF ref \in Ids(cats) THEN {ref}
  ELSE IF \E c \in cats : toLowerCase(c.name) = toLowerCase(ref)
       THEN {c.id : c \in {d \in cats : toLowerCase(d.name) = toLowerCase(ref)}}
  ELSE FallbackIds(cats)

\* The pass holds the result of a select_existing or uncategorized decision
\* and is about to store it.
SelectedResult(s) ==
  s.pc = "insert" /\ s.extractionResult.isTransaction /\ s.extractionResult.newCategory = NoName

\* C22 as stated: the categoryId of a select_existing or uncategorized result
\* is the model's reference resolved in the order id, case-insensitive name,
\* Uncategorized, and a non-null categoryId is the id of an available category.
ResolutionOrderAsStated ==
  \A h \in Handlers :
    SelectedResult(hs[h])
    => /\ hs[h].extractionResult.categoryId
            \in InOrder(hs[h].categoryRef, hs[h].availableCategories)
       /\ hs[h].extractionResult.categoryId # NoCategory
            => hs[h].extractionResult.categoryId \in Ids(hs[h].availableCategories)

\* C22 amended: the same order applied to the reference with its surrounding
\* whitespace removed; a non-null categoryId is the id of an available category.
ResolutionOrder ==
  \A h \in Handlers :
    SelectedResult(hs[h])
    => /\ hs[h].extractionResult.categoryId
            \in InOrder(trim(hs[h].categoryRef), hs[h].availableCategories)
       /\ hs[h].extractionResult.categoryId # NoCategory
            => hs[h].extractionResult.categoryId \in Ids(hs[h].availableCategories)

\* A reference that is the name Uncategorized in another case was resolved to
\* that category's id, although the reference is no id.
ResolutionOrderWitness ==
  \E h \in Handlers :
    /\ SelectedResult(hs[h]) /\ hs[h].categoryRef = "UNCATEGORIZED"
    /\ hs[h].extractionResult.categoryId = "c-unc"
    /\ hs[h].pc = "insert"

\* C23: the step a pass takes after categoryRepo.create failed for a create_new
\* decision does not fail the message: it goes on to the insert with the id of
\* an existing category of that name, own or default, and a row saved for the
\* message references that category.
CreateFailureFallsBack ==
  [][\A h \in Handlers :
       LET name == hs[h].extractionResult.newCategory
           existing == {c.id : c \in findByNameForUser(name, UserId)}
       IN /\ (hs[h].pc = "find_category" /\ hs'[h] # hs[h])
               => /\ hs'[h].pc = "insert"
                  /\ hs'[h].result.failedCount = hs[h].result.failedCount
                  /\ hs'[h].categoryId \in existing
          /\ (hs[h].pc = "insert" /\ name # NoName /\ transactions' # transactions)
               => \A t \in transactions' \ transactions :
                    t.categoryId \in {c.id : c \in {d \in categories : d.name = name}}]_vars

\* The handler has answered after a pass in which every message of a fetched
\* delta failed, so the cursor was withheld.
TotalFailureDone(s) ==
  /\ s.pc = "done" /\ s.idx > 0
  /\ s.result.processedCount = 0 /\ s.result.failedCount > 0

\* The messages in the errors of a pass.
FailedMessages(s) == {m \in Messages : <<m, "failed">> \in s.outcome}

\* The message ids of a delta.
DeltaIds(delta) == {delta[i] : i \in 1..Len(delta)}

\* C24: once a handler has ended in total failure, a handler that looks up
\* the user's token afterwards starts its history fetch from the cursor the
\* failed run started from, and the delta it fetches holds every message that
\* failed in that run.
RetrySameRange ==
  [][\A failed \in Handlers : \A next \in Handlers \ {failed} :
       TotalFailureDone(hs[failed])
       => /\ (hs[next].pc = "lookup" /\ hs'[next].pc = "history")
               => historyIdToUse(hs'[next]) = historyIdToUse(hs[failed])
          /\ (hs[next].pc = "history" /\ hs'[next].pc = "categories")
               => FailedMessages(hs[failed]) \subseteq DeltaIds(hs'[next].delta)]_vars

\* The place of each position in the order of a handler's run.
Rank(pc) ==
  CASE pc = "idle" -> 0 [] pc = "lookup" -> 1 [] pc = "history" -> 2
    [] pc = "categories" -> 3 [] pc = "dedup" -> 4 [] pc = "fetch" -> 5
    [] pc = "extract" -> 6 [] pc = "create_category" -> 7 [] pc = "find_category" -> 8
    [] pc = "insert" -> 9 [] pc = "mark" -> 10 [] pc = "mark_caught" -> 11
    [] pc = "cursor" -> 12 [] pc = "done" -> 13

\* The messages a pass has finished with.
HandledMessages(s) == {o[1] : o \in s.outcome}

\* C25: every step of a handler moves it forward in the order decode, account
\* lookup, history fetch, per message (dedup check, fetch, extract, category,
\* insert, UNREAD removal), cursor write, acknowledgment, or starts the next
\* message at its dedup check; a handler writes the cursor only at the cursor
\* step, when every message of its delta has been handled; and the
\* acknowledgment of a processed notification follows the cursor step.
StepOrder ==
  [][\A h \in Handlers :
       hs'[h] # hs[h]
       => /\ \/ /\ Rank(hs'[h].pc) > Rank(hs[h].pc)
                /\ (hs'[h].idx # hs[h].idx /\ hs[h].idx > 0) => hs'[h].pc = "cursor"
             \/ /\ InLoopBody(hs[h]) /\ hs'[h].pc = "dedup"
                /\ hs'[h].idx > hs[h].idx
                /\ Current(hs[h]) \in HandledMessages(hs'[h])
          /\ historyId' # historyId
               => /\ hs[h].pc = "cursor"
                  /\ DeltaIds(hs[h].delta) \subseteq HandledMessages(hs[h])
          /\ hs'[h].response = "Gmail notification received and processed"
               => hs[h].pc = "cursor" /\ hs'[h].pc = "done"]_vars

\* A handler has acknowledged a delta of two messages, both saved, and the
\* cursor holds its notification's historyId.
StepOrderWitness ==
  \E h \in Handlers :
    /\ hs[h].pc = "done" /\ hs[h].response = "Gmail notification received and processed"
    /\ Cardinality(DeltaIds(hs[h].delta)) = 2
    /\ \A m \in DeltaIds(hs[h].delta) : <<m, "saved">> \in hs[h].outcome
    /\ historyId = hs[h].body.historyId

\* C26: a markAsRead failure is caught where it happens: the step from the
\* markAsRead call adds nothing to failedCount or errors and stores or removes
\* no transaction, and the step from its catch counts the message as processed,
\* adds nothing to failedCount or errors and moves on to the next message; a
\* row saved for the message in this pass is in the table throughout.
MarkFailureIgnored ==
  [][\A h \in Handlers :
       /\ (hs[h].pc = "mark" /\ hs'[h] # hs[h])
            => /\ hs'[h].result.failedCount = hs[h].result.failedCount
               /\ hs'[h].result.errors = hs[h].result.errors
               /\ transactions' = transactions
               /\ \/ hs'[h].pc = "mark_caught" /\ hs'[h].result = hs[h].result
                  \/ hs'[h].result.processedCount = hs[h].result.processedCount + 1
       /\ (hs[h].pc = "mark_caught" /\ hs'[h] # hs[h])
            => /\ hs'[h].result.processedCount = hs[h].result.processedCount + 1
               /\ hs'[h].result.failedCount = hs[h].result.failedCount
               /\ hs'[h].result.errors = hs[h].result.errors
               /\ hs'[h].pc \in {"dedup", "cursor"}
               /\ transactions' = transactions
               /\ <<Current(hs[h]), "saved">> \in hs[h].outcome
                    => RowsFor(Current(hs[h])) # {}]_vars

\* markAsRead has failed for the second message of a delta, which was saved in
\* this pass after the first was counted, and the failure is in its catch.
MarkFailureWitness ==
  \E h \in Handlers :
    /\ hs[h].pc = "mark_caught" /\ hs[h].idx = 2
    /\ <<Current(hs[h]), "saved">> \in hs[h].outcome
    /\ RowsFor(Current(hs[h])) # {}
    /\ hs[h].result.processedCount = 1 /\ hs[h].result.failedCount = 0

\* C27: every handler that has received a POST eventually answers it.
HandlerTerminates == \A h \in Handlers : (hs[h].pc # "idle") ~> (hs[h].pc = "done")

\* The runs of the resync function for a user that are not cancelled.
ActiveCycles(r, u) == {run \in r.runs : run.userId = u /\ run.status = "running"}

\* C28: a user never has two resync cycles that are not cancelled; after a
\* gmail/watch.started event for a user the user's only cycle is the one that
\* event started, after a gmail/watch.stopped event the user has none, and an
\* event leaves the cycles of every other user as they were.
OneCyclePerUser ==
  [][/\ \A u \in Users : Cardinality(ActiveCycles(resync', u)) <= 1
     /\ resync'.received # resync.received
        => /\ resync'.last.name = "gmail/watch.started"
                => ActiveCycles(resync', resync'.last.userId) =
                     {run \in resync'.runs : run.id = resync'.received}
           /\ resync'.last.name = "gmail/watch.stopped"
                => ActiveCycles(resync', resync'.last.userId) = {}
           /\ \A u \in Users \ {resync'.last.userId} :
                ActiveCycles(resync', u) = ActiveCycles(resync, u)]_vars

\* A second gmail/watch.started event for the user has cancelled the cycle of
\* the first while the other user's cycle runs on.
OneCycleWitness ==
  /\ \E run \in resync.runs : run.userId = UserId /\ run.status = "cancelled"
  /\ ActiveCycles(resync, UserId) # {} /\ ActiveCycles(resync, OtherUserId) # {}
  /\ resync.last = [name |-> "gmail/watch.started", userId |-> UserId]

\* No storeTokens call for the user is between its read and its write.
NoStoreInProgress(u) ==
  \A k \in StoreCalls : ~(tokens.calls[k].pc = "write" /\ tokens.calls[k].userId = u)

\* C29: when no storeTokens call for a user is in progress and tokens were
\* stored for the user, the table has exactly one row for the user and it holds
\* the values of the last write.
OneTokenRow ==
  \A u \in Users :
    (NoStoreInProgress(u) /\ tokens.lastWrite[u] # "")
    => \E t \in tokens.rows :
         /\ {r \in tokens.rows : r.userId = u} = {t}
         /\ t.accessToken = tokens.lastWrite[u]

\* The messages of a delta with a given label in the pass's bookkeeping.
Labelled(s, labels) ==
  {m \in DeltaIds(s.delta) : \E label \in labels : <<m, label>> \in s.outcome}

\* C30: when processNotification returns from the loop, processedCount +
\* failedCount is at most the number of distinct message ids of the delta,
\* errors has failedCount entries, failedCount is the number of messages that
\* ended in the per-message catch, and the messages counted in neither counter
\* are exactly those that ended in a not-found error or whose insert hit the
\* unique constraint.
CountsAccount ==
  \A h \in Handlers :
    LoopReturned(hs[h])
    => LET s == hs[h]
           ids == DeltaIds(s.delta)
           uncounted == Labelled(s, {"not_found", "race_duplicate"})
       IN /\ s.result.processedCount + s.result.failedCount <= Cardinality(ids)
          /\ Len(s.result.errors) = s.result.failedCount
          /\ s.result.failedCount = Cardinality(Labelled(s, {"failed"}))
          /\ s.result.processedCount + s.result.failedCount
               = Cardinality(ids) - Cardinality(uncounted)
          /\ uncounted \cap Labelled(s, {"failed", "saved", "duplicate", "not_saved",
                                          "extraction_failed"}) = {}

\* A pass has returned from a delta that lists its only message twice: the
\* message was fetched, extracted, and its insert hit the unique constraint, so
\* both counters are zero.
CountsAccountWitness ==
  \E h \in Handlers :
    /\ LoopReturned(hs[h]) /\ Len(hs[h].delta) = 2
    /\ Labelled(hs[h], {"race_duplicate"}) # {}
    /\ hs[h].result.processedCount = 0 /\ hs[h].result.failedCount = 0

====
